---- MODULE Spec2Model ----
(***************************************************************************)
(* A model of app.py (qq-group-member-insight): the per-account analysis   *)
(* store (DBManager), the two import paths that repopulate it              *)
(* (Pipeline.clean_data_to_analysis_db and process_json), the queries that *)
(* read it, the decrypt stage with its two backends (Pipeline.decrypt_db), *)
(* and the two byte-level helpers (Pipeline.get_key, remove_header).       *)
(***************************************************************************)
EXTENDS Integers, Sequences, FiniteSets, TLC

VARIABLES
    dbExists,   \* [account -> BOOLEAN]: data/<qq_id>/group_data.db exists
    db,         \* [account -> [groups, members]]: the committed rows
    engines,    \* the keys of DBManager.engines
    pc,         \* [account -> position of the import call in flight]
    src,        \* [account -> the source of the import call in flight or last made]
    tx,         \* [account -> the import session's uncommitted view of the rows]
    batch,      \* [account -> the Member objects buffered by the raw-table loop]
    cur,        \* [account -> index of the next source row / payload entry]
    pre,        \* [account -> the rows committed when the import call in flight, or the
                \*  failed call that ended last, began; the committed rows otherwise]
    outcome,    \* [account -> "none" | "ok" | "failed": how the last import call ended]
    obs,        \* [account -> what the last query read since an import call last
                \*  began or ended]
    hist        \* [account -> how the last import call began: with the source of the
                \*  successful call before it (again), over stored rows (over)]

storeVars == <<dbExists, db, engines, pc, src, tx, batch, cur, pre, outcome, obs, hist>>

\* Pipeline.decrypt_db, one call.
VARIABLES
    env,        \* what the call finds: the library, the executables, the output file
    dpc,        \* position of the call
    outFile,    \* the file at decrypted_path
    probe,      \* index of the candidate _find_sqlcipher_binary tries next
    cmd_tool,   \* the executable found ("" for None)
    dres,       \* how the call ended, and the message of the exception it raised
    dlog        \* the steps taken, in order

decVars == <<env, dpc, outFile, probe, cmd_tool, dres, dlog>>

\* Pipeline.get_key and Pipeline.remove_header on one raw file.
VARIABLES
    rawFile,    \* the raw file: whether it can be opened, and its bytes
    nt_uid,     \* the installation identifier
    destFile,   \* the file at dest_path: whether it exists, and its bytes
    kres,       \* what get_key did: nothing yet, a key, or an error
    sres        \* what remove_header did: nothing yet, a return, or an error

fileVars == <<rawFile, nt_uid, destFile, kres, sres>>

\* The five analysis endpoints.
VARIABLES
    qres        \* the last call of an analysis endpoint: which, its argument, what
                \* it read and what it returned

queryVars == <<qres>>

\* delete_user.
VARIABLES
    del         \* [account -> the delete_user call: its position, whether the cache
                \*  held the account when close_engine ran, and how it ended]

delVars == <<del>>

\* process_termux and process_manual, one request.
VARIABLES
    req,        \* the request: the handler, the payload, the files there were
    pp,         \* position of the handler
    resp        \* the response: "success", or the status of the error raised

pipeVars == <<req, pp, resp>>

vars == <<storeVars, decVars, fileVars, queryVars, delVars, pipeVars>>

\* What an action of the store, of decrypt_db, and on the files leaves alone.
notStore == <<decVars, fileVars, queryVars, delVars, pipeVars>>

notDecrypt == <<storeVars, fileVars, queryVars, delVars, pipeVars>>

notFiles == <<storeVars, decVars, queryVars, delVars, pipeVars>>

\* What a call of an analysis endpoint leaves alone: all but the cache and qres.
notQuery ==
    <<dbExists, db, pc, src, tx, batch, cur, pre, outcome, obs, hist, decVars, fileVars, delVars,
      pipeVars>>

----------------------------------------------------------------------------
(* Cells of a raw SQLite row, and Python's str() and truth value of them.  *)

NULL == [t |-> "null", i |-> 0, s |-> ""]

IntCell(n) == [t |-> "int", i |-> n, s |-> ""]

TextCell(x) == [t |-> "text", i |-> 0, s |-> x]

\* str(row[k]): an INTEGER cell prints in decimal, a TEXT cell is itself.
PyStr(v) ==
    CASE v.t = "int" -> ToString(v.i)
      [] v.t = "text" -> v.s
      [] OTHER -> "None"

\* `if g_nick`: None, "" and 0 are false.
Truthy(v) == (v.t = "text" /\ v.s # "") \/ (v.t = "int" /\ v.i # 0)

----------------------------------------------------------------------------
(* The accounts and the inputs.                                            *)

Accounts == {"1000", "2000"}

\* The accounts the import and query actions of Spec run on.
MainAccounts == {"1000"}

\* Most rows of group_member3 in one source.
MaxMemberRows == 2

\* BATCH_SIZE of the raw-table loop, scaled to the sources above (5000 in the code).
BATCH_SIZE == 2

\* A group_member3 row: columns 0 (nickname), 1 (name), 2 (group), 5 (user).
MRow(nick, name, gid, uid) == [c0 |-> nick, c1 |-> name, c2 |-> gid, c5 |-> uid]

MemberRowDomain ==
    { MRow(TextCell("nk"), TextCell("n1"), IntCell(1), TextCell("7")),
      MRow(TextCell(""), TextCell("n2"), TextCell("1"), IntCell(7)),
      MRow(NULL, TextCell("n1"), TextCell("2"), TextCell("7")),
      MRow(TextCell("me"), TextCell("n0"), IntCell(1), IntCell(1000)),
      MRow(TextCell("nk"), TextCell("n1"), NULL, TextCell("7")),
      MRow(TextCell("nk"), TextCell("n1"), IntCell(2), NULL) }

\* A group_list row: columns 0 (group) and 5 (name).
GRow(gid, name) == [c0 |-> gid, c5 |-> name]

GroupLists ==
    { << >>,
      << GRow(IntCell(1), TextCell("Alpha")), GRow(TextCell("1"), TextCell("Beta")) >>,
      << GRow(TextCell("2"), TextCell("Beta")) >> }

SeqsUpTo(S, n) == UNION { [1..k -> S] : k \in 0..n }

RawSource(hg, hm, gc, mc, gl, ml) ==
    [kind |-> "raw", hasGroupList |-> hg, hasMembers |-> hm,
     groupCols |-> gc, memberCols |-> mc, group_list |-> gl, group_member3 |-> ml]

OneGroup == << GRow(IntCell(1), TextCell("Alpha")) >>

TwoMembers ==
    << MRow(TextCell("nk"), TextCell("n1"), IntCell(1), TextCell("7")),
       MRow(NULL, TextCell("n1"), TextCell("2"), TextCell("7")) >>

\* A decrypted database: which tables it has, their column counts and rows.
\* Every sequence of member rows under one group list, every group list under
\* one sequence of member rows, and the databases that lack a table or columns.
RawSources ==
    { RawSource(TRUE, TRUE, 6, 6, OneGroup, ml) :
        ml \in SeqsUpTo(MemberRowDomain, MaxMemberRows) }
    \cup
    { RawSource(TRUE, TRUE, 6, 6, gl, TwoMembers) : gl \in GroupLists }
    \cup
    { RawSource(q[1], q[2], q[3], q[4], OneGroup, TwoMembers) :
        q \in { <<FALSE, TRUE, 6, 6>>, <<TRUE, FALSE, 6, 6>>,
                <<TRUE, TRUE, 5, 6>>, <<TRUE, TRUE, 6, 5>> } }

\* One entry of a payload's "members" mapping: the key and the value, which is
\* a mapping (isDict) that holds "user_name" and "user_group_name" or not.
JMember(uid, isDict, hasName, name, hasNick, nick) ==
    [uid |-> uid, isDict |-> isDict, hasName |-> hasName, user_name |-> name,
     hasNick |-> hasNick, user_group_name |-> nick]

\* One entry of a payload: the key and the value, which is a mapping (isDict)
\* that holds "group_name" or not, and "members", a mapping (membersIsDict) or not.
JGroup(gid, isDict, hasName, name, membersIsDict, members) ==
    [gid |-> gid, isDict |-> isDict, hasName |-> hasName, group_name |-> name,
     membersIsDict |-> membersIsDict, members |-> members]

Bob == JMember("7", TRUE, TRUE, "Bob", TRUE, "bobby")

JMemberLists ==
    { << >>,
      << JMember("1000", TRUE, TRUE, "Me", FALSE, ""), Bob >>,
      << JMember("7", TRUE, TRUE, "Bob", FALSE, "") >>,
      << JMember("7", TRUE, FALSE, "", TRUE, "bobby") >>,
      << Bob, JMember("8", FALSE, FALSE, "", FALSE, "") >>,
      << JMember("1000", FALSE, FALSE, "", FALSE, ""), Bob >> }

JGroupDomain(gid) ==
    { JGroup(gid, TRUE, TRUE, "X", TRUE, ms) : ms \in JMemberLists }
    \cup
    { JGroup(gid, TRUE, FALSE, "", TRUE, << Bob >>),
      JGroup(gid, TRUE, TRUE, "X", FALSE, << >>),
      JGroup(gid, FALSE, FALSE, "", FALSE, << >>) }

JsonSource(top, entries) == [kind |-> "json", top |-> top, entries |-> entries]

\* An uploaded file: not JSON at all ("invalid"), a JSON list, or a JSON object
\* of one or two groups (an object's keys are distinct once parsed).
JsonSources ==
    { JsonSource("invalid", << >>), JsonSource("list", << >>), JsonSource("dict", << >>) }
    \cup
    { JsonSource("dict", << e >>) : e \in JGroupDomain("1") }
    \cup
    { JsonSource("dict", << e, f >>) :
        e \in JGroupDomain("1"),
        f \in { JGroup("2", TRUE, TRUE, "Y", TRUE, << Bob >>),
                JGroup("2", TRUE, TRUE, "Y", TRUE, << Bob, JMember("8", FALSE, FALSE, "", FALSE, "") >>),
                JGroup("2", TRUE, TRUE, "Y", TRUE, << JMember("1000", TRUE, TRUE, "Me", TRUE, "me") >>) } }

NoSource == [kind |-> "none"]

\* An entry of "members" that holds both names.
Named(uid, name, nick) == JMember(uid, TRUE, TRUE, name, TRUE, nick)

\* The sources imported before the analysis endpoints are called: two payloads
\* with users in one, two and three groups, a decrypted database whose
\* group_list lacks a group that group_member3 names, and a payload that fails.
QuerySources ==
    { JsonSource("dict",
        << JGroup("1", TRUE, TRUE, "a_b", TRUE,
                  << Named("7", "Bob", "bobby"), Named("8", "Ann", "") >>),
           JGroup("2", TRUE, TRUE, "axb", TRUE,
                  << Named("7", "Bobby", "bb"), Named("9", "Cy", "c") >>) >>),
      JsonSource("dict",
        << JGroup("1", TRUE, TRUE, "Ab", TRUE,
                  << Named("7", "Bob", "bobby"), Named("9", "Cy", "c") >>),
           JGroup("2", TRUE, TRUE, "a%", TRUE,
                  << Named("7", "Bob", "b2"), Named("8", "Ann", "a2") >>),
           JGroup("3", TRUE, TRUE, "ab", TRUE,
                  << Named("7", "Bob", "b3"), Named("8", "Ann", "a3") >>) >>),
      RawSource(TRUE, TRUE, 6, 6,
        << GRow(IntCell(1), TextCell("axb")) >>,
        << MRow(TextCell("nk"), TextCell("Bob"), IntCell(1), TextCell("7")),
           MRow(NULL, TextCell("Bob"), TextCell("2"), TextCell("7")),
           MRow(TextCell(""), TextCell("Ann"), IntCell(2), IntCell(8)) >>),
      JsonSource("list", << >>) }

----------------------------------------------------------------------------
(* The analysis schema: rows, and the statements the imports run on it.    *)

EmptyRows == [groups |-> {}, members |-> {}]

NoTx == [groups |-> {}, members |-> {}, open |-> FALSE]

OpenTx(rows) == [groups |-> rows.groups, members |-> rows.members, open |-> TRUE]

Committed(t) == [groups |-> t.groups, members |-> t.members]

\* Member's primary key.
MemberKey(m) == <<m.group_id, m.user_id>>

\* Member(group_id=..., user_id=..., user_name=..., user_group_name=...)
Member(gid, uid, name, nick) ==
    [group_id |-> gid, user_id |-> uid, user_name |-> name, user_group_name |-> nick]

Group(gid, name) == [group_id |-> gid, group_name |-> name]

\* session.merge(Group(...)): insert, or overwrite the row with that group_id.
MergeGroup(groups, g) == { x \in groups : x.group_id # g.group_id } \cup {g}

\* session.merge(Member(...)): insert, or overwrite the row with that key.
MergeMember(members, m) == { x \in members : MemberKey(x) # MemberKey(m) } \cup {m}

\* The UNIQUE constraint of the primary key (group_id, user_id): an INSERT of
\* the objects b fails when a key is already stored or comes twice in b.
UniqueViolation(members, b) ==
    \/ \E i \in 1..Len(b) : \E m \in members : MemberKey(m) = MemberKey(b[i])
    \/ \E i, j \in 1..Len(b) : i # j /\ MemberKey(b[i]) = MemberKey(b[j])

\* session.bulk_save_objects(batch): one INSERT per object, no lookup first.
BulkInsert(members, b) == members \cup { b[i] : i \in 1..Len(b) }

\* A delete of the members that forgets the groups.
DeleteMembersOnly(t) == [t EXCEPT !.members = {}]

\* session.query(Member).delete(); session.query(Group).delete()
DeleteAll(t) == [t EXCEPT !.groups = {}, !.members = {}]

\* A rollback that keeps what the session had written.
RollbackKeeps(committed, t) == Committed(t)

\* session.rollback(): the committed rows stay, the session's view is dropped.
Rollback(committed, t) == committed

\* A reader that shares the import's connection and sees its uncommitted rows.
VisibleDirty(a) == IF tx[a].open THEN Committed(tx[a]) ELSE db[a]

\* What a connection other than the import's session reads: committed rows only.
Visible(a) == db[a]

----------------------------------------------------------------------------
(* DBManager.                                                              *)

\* A close_engine that forgets every account's sessionmaker.
close_engine_all(cache, a) == {}

\* close_engine(qq_id): dispose and forget the cached sessionmaker, if any.
close_engine(cache, a) == IF a \in cache THEN cache \ {a} ELSE cache

\* An init_user_db that leaves the cached sessionmaker where it is.
init_user_db_cached(a) ==
    /\ dbExists' = [dbExists EXCEPT ![a] = TRUE]
    /\ engines' = engines

\* An init_user_db that makes the file of every account.
init_user_db_everyone(a) ==
    /\ dbExists' = [b \in Accounts |-> TRUE]
    /\ engines' = close_engine(engines, a)

\* init_user_db(qq_id): makedirs, close_engine, create_all (existing rows stay).
init_user_db(a) ==
    /\ dbExists' = [dbExists EXCEPT ![a] = TRUE]
    /\ engines' = close_engine(engines, a)

NoObs == [seen |-> FALSE, found |-> FALSE, dirty |-> FALSE, rows |-> EmptyRows]

NoHist == [again |-> FALSE, over |-> FALSE]

\* The history of a call that begins with source s on account a.
BeginHist(a, s) ==
    [again |-> (outcome[a] = "ok" /\ src[a] = s),
     over |-> (db[a].members # {} /\ db[a].groups # {})]

\* The import session of a holds changes it has not committed.
Dirty(a) == tx[a].open /\ Committed(tx[a]) # db[a]

\* get_session(qq_id) followed by one SELECT: 404 when the file is missing,
\* else the sessionmaker is cached and the statement reads the committed rows.
Query(a) ==
    /\ IF dbExists[a]
          THEN /\ engines' = engines \cup {a}
               /\ obs' = [obs EXCEPT ![a] = [seen |-> TRUE, found |-> TRUE,
                                               dirty |-> Dirty(a), rows |-> Visible(a)]]
          ELSE /\ engines' = engines
               /\ obs' = [obs EXCEPT ![a] = [seen |-> TRUE, found |-> FALSE,
                                               dirty |-> FALSE, rows |-> EmptyRows]]
    /\ UNCHANGED <<dbExists, db, pc, src, tx, batch, cur, pre, outcome, hist>>
    /\ UNCHANGED notStore

NoDelete == [pc |-> "idle", had |-> FALSE, status |-> "none"]

\* No call of delete_user.
DelOff == del = [a \in Accounts |-> NoDelete]

\* shutil.rmtree(data/<qq_id>): group_data.db is gone with the folder.
Removed(exists, a) == [exists EXCEPT ![a] = FALSE]

\* delete_user, lines 381-382: close_engine(qq_id), gc.collect(). Taken when no
\* import of the account is in flight.
DeleteClose(a) ==
    /\ del[a].pc = "idle"
    /\ pc[a] = "idle"
    /\ engines' = close_engine(engines, a)
    /\ del' = [del EXCEPT ![a] = [pc |-> "closed", had |-> a \in engines, status |-> "none"]]
    /\ UNCHANGED <<dbExists, db, pc, src, tx, batch, cur, pre, outcome, obs, hist>>
    /\ UNCHANGED <<decVars, fileVars, queryVars, pipeVars>>

\* delete_user, lines 384-391: rmtree of the folder if it exists. Where an open
\* handle blocks removal, a sessionmaker cached since close_engine makes rmtree
\* raise, and the call ends with the 500.
DeleteRemove(a) ==
    /\ del[a].pc = "closed"
    /\ pc[a] = "idle"
    /\ \/ /\ dbExists' = Removed(dbExists, a)
          /\ db' = [db EXCEPT ![a] = EmptyRows]
          /\ pre' = [pre EXCEPT ![a] = EmptyRows]
          /\ outcome' = [outcome EXCEPT ![a] = "none"]
          /\ obs' = [obs EXCEPT ![a] = NoObs]
          /\ hist' = [hist EXCEPT ![a] = NoHist]
          /\ del' = [del EXCEPT ![a].pc = "idle", ![a].status = "deleted"]
       \/ /\ a \in engines
          /\ del' = [del EXCEPT ![a].pc = "idle", ![a].status = "failed"]
          /\ UNCHANGED <<dbExists, db, pre, outcome, obs, hist>>
    /\ UNCHANGED <<engines, pc, src, tx, batch, cur>>
    /\ UNCHANGED <<decVars, fileVars, queryVars, pipeVars>>

----------------------------------------------------------------------------
(* Pipeline.clean_data_to_analysis_db: the raw-table import.                *)

\* A filter that looks at the number of columns only.
RowSkippedShort(s, row) == s.memberCols <= 5

\* `if len(row) <= 5 or row[2] is None or row[5] is None: continue`
RowSkipped(s, row) == s.memberCols <= 5 \/ row.c2 = NULL \/ row.c5 = NULL

\* A loop without the exclusion of the account itself.
IsSelfNever(row, a) == FALSE

\* `if u_id == target_qq_id: continue`
IsSelf(row, a) == PyStr(row.c5) = a

\* The Member built from a row: final_nick = g_nick if g_nick else u_name.
RowMember(row) ==
    Member(PyStr(row.c2), PyStr(row.c5), row.c1,
           IF Truthy(row.c0) THEN row.c0 ELSE row.c1)

\* The except/finally of the call: roll back, close, raise.
CleanFail(a) ==
    /\ db' = [db EXCEPT ![a] = Rollback(db[a], tx[a])]
    /\ tx' = [tx EXCEPT ![a] = NoTx]
    /\ batch' = [batch EXCEPT ![a] = << >>]
    /\ pc' = [pc EXCEPT ![a] = "idle"]
    /\ outcome' = [outcome EXCEPT ![a] = "failed"]
    /\ obs' = [obs EXCEPT ![a] = NoObs]
    /\ UNCHANGED pre

\* Lines 246-253: init_user_db, open the source and the target session.
CleanBegin(a, s) ==
    /\ pc[a] = "idle"
    /\ init_user_db(a)
    /\ pc' = [pc EXCEPT ![a] = "delete"]
    /\ src' = [src EXCEPT ![a] = s]
    /\ tx' = [tx EXCEPT ![a] = OpenTx(db[a])]
    /\ batch' = [batch EXCEPT ![a] = << >>]
    /\ cur' = [cur EXCEPT ![a] = 1]
    /\ pre' = [pre EXCEPT ![a] = db[a]]
    /\ outcome' = [outcome EXCEPT ![a] = "none"]
    /\ obs' = [obs EXCEPT ![a] = NoObs]
    /\ hist' = [hist EXCEPT ![a] = BeginHist(a, s)]
    /\ UNCHANGED db
    /\ UNCHANGED notStore

\* Lines 256-257: delete every Member, then every Group, in the transaction.
CleanDelete(a) ==
    /\ pc[a] = "delete"
    /\ tx' = [tx EXCEPT ![a] = DeleteAll(tx[a])]
    /\ pc' = [pc EXCEPT ![a] = "groups"]
    /\ UNCHANGED <<dbExists, db, engines, src, batch, cur, pre, outcome, obs, hist>>
    /\ UNCHANGED notStore

RECURSIVE MergeGroupRows(_, _, _)
\* Lines 262-264 from row k on: merge a Group for each row of more than 5 columns.
MergeGroupRows(groups, s, k) ==
    IF k > Len(s.group_list) THEN groups
    ELSE MergeGroupRows(
           IF s.groupCols > 5
              THEN MergeGroup(groups, Group(PyStr(s.group_list[k].c0), PyStr(s.group_list[k].c5)))
              ELSE groups,
           s, k + 1)

\* Lines 260-264: SELECT * FROM group_list (raises when the table is missing).
CleanGroups(a) ==
    /\ pc[a] = "groups"
    /\ IF src[a].hasGroupList
          THEN /\ tx' = [tx EXCEPT ![a].groups = MergeGroupRows(tx[a].groups, src[a], 1)]
               /\ pc' = [pc EXCEPT ![a] = "select"]
               /\ UNCHANGED <<db, batch, outcome, pre, obs>>
          ELSE CleanFail(a)
    /\ UNCHANGED <<dbExists, engines, src, cur, hist>>
    /\ UNCHANGED notStore

\* Lines 267-271: SELECT * FROM group_member3 (raises when the table is missing).
CleanSelect(a) ==
    /\ pc[a] = "select"
    /\ IF src[a].hasMembers
          THEN /\ pc' = [pc EXCEPT ![a] = "rows"]
               /\ UNCHANGED <<db, tx, batch, outcome, pre, obs>>
          ELSE CleanFail(a)
    /\ UNCHANGED <<dbExists, engines, src, cur, hist>>
    /\ UNCHANGED notStore

\* Lines 273-297: one iteration of the loop over member_rows.
CleanRow(a) ==
    /\ pc[a] = "rows"
    /\ cur[a] <= Len(src[a].group_member3)
    /\ LET row == src[a].group_member3[cur[a]]
           nb == Append(batch[a], RowMember(row))
       IN  IF RowSkipped(src[a], row) \/ IsSelf(row, a)
              THEN /\ cur' = [cur EXCEPT ![a] = @ + 1]
                   /\ UNCHANGED <<db, tx, batch, pc, outcome, pre, obs>>
           ELSE IF Len(nb) < BATCH_SIZE
              THEN /\ cur' = [cur EXCEPT ![a] = @ + 1]
                   /\ batch' = [batch EXCEPT ![a] = nb]
                   /\ UNCHANGED <<db, tx, pc, outcome, pre, obs>>
           ELSE IF UniqueViolation(tx[a].members, nb)
              THEN /\ CleanFail(a)
                   /\ UNCHANGED cur
           ELSE /\ cur' = [cur EXCEPT ![a] = @ + 1]
                /\ tx' = [tx EXCEPT ![a].members = BulkInsert(@, nb)]
                /\ batch' = [batch EXCEPT ![a] = << >>]
                /\ UNCHANGED <<db, pc, outcome, pre, obs>>
    /\ UNCHANGED <<dbExists, engines, src, hist>>
    /\ UNCHANGED notStore

\* Lines 299-302: save what is left of the batch, then commit.
CleanCommit(a) ==
    /\ pc[a] = "rows"
    /\ cur[a] > Len(src[a].group_member3)
    /\ IF batch[a] # << >> /\ UniqueViolation(tx[a].members, batch[a])
          THEN CleanFail(a)
          ELSE LET rows == [groups |-> tx[a].groups,
                            members |-> BulkInsert(tx[a].members, batch[a])]
               IN  /\ db' = [db EXCEPT ![a] = rows]
                   /\ pre' = [pre EXCEPT ![a] = rows]
                   /\ tx' = [tx EXCEPT ![a] = NoTx]
                   /\ batch' = [batch EXCEPT ![a] = << >>]
                   /\ pc' = [pc EXCEPT ![a] = "idle"]
                   /\ outcome' = [outcome EXCEPT ![a] = "ok"]
                   /\ obs' = [obs EXCEPT ![a] = NoObs]
    /\ UNCHANGED <<dbExists, engines, src, cur, hist>>
    /\ UNCHANGED notStore

----------------------------------------------------------------------------
(* process_json: the structured import.                                    *)

\* `if str(uid) == str(qq_id): continue`
IsSelfJson(uid, a) == uid = a

\* Member(..., user_name=u_info.get("user_name", ""),
\*        user_group_name=u_info.get("user_group_name", ""))
JsonMember(gid, m) ==
    Member(gid, m.uid,
           TextCell(IF m.hasName THEN m.user_name ELSE ""),
           TextCell(IF m.hasNick THEN m.user_group_name ELSE ""))

RECURSIVE MergeJsonMembers(_, _, _, _, _)
\* Lines 507-515 from entry k of ms on: skip the account itself, merge the
\* others; u_info.get raises on a value that is no mapping.
MergeJsonMembers(members, gid, ms, k, a) ==
    IF k > Len(ms) THEN [ok |-> TRUE, members |-> members]
    ELSE IF IsSelfJson(ms[k].uid, a) THEN MergeJsonMembers(members, gid, ms, k + 1, a)
    ELSE IF ~ms[k].isDict THEN [ok |-> FALSE, members |-> members]
    ELSE MergeJsonMembers(MergeMember(members, JsonMember(gid, ms[k])), gid, ms, k + 1, a)

\* The except of the handler: no rollback and no close, the session is dropped
\* with its transaction open and the HTTP error is raised.
JsonFail(a) ==
    /\ pc' = [pc EXCEPT ![a] = "abandoned"]
    /\ outcome' = [outcome EXCEPT ![a] = "failed"]
    /\ obs' = [obs EXCEPT ![a] = NoObs]
    /\ UNCHANGED <<db, pre>>

\* Lines 491-497: parse the upload, init_user_db, open the session.
JsonBegin(a, s) ==
    /\ pc[a] = "idle"
    /\ src' = [src EXCEPT ![a] = s]
    /\ batch' = [batch EXCEPT ![a] = << >>]
    /\ cur' = [cur EXCEPT ![a] = 1]
    /\ pre' = [pre EXCEPT ![a] = db[a]]
    /\ obs' = [obs EXCEPT ![a] = NoObs]
    /\ IF s.top = "invalid"
          THEN /\ outcome' = [outcome EXCEPT ![a] = "failed"]
               /\ UNCHANGED <<dbExists, engines, pc, tx>>
          ELSE /\ init_user_db(a)
               /\ pc' = [pc EXCEPT ![a] = "jdelete"]
               /\ tx' = [tx EXCEPT ![a] = OpenTx(db[a])]
               /\ outcome' = [outcome EXCEPT ![a] = "none"]
    /\ hist' = [hist EXCEPT ![a] = BeginHist(a, s)]
    /\ UNCHANGED db
    /\ UNCHANGED notStore

\* Lines 499-500.
JsonDelete(a) ==
    /\ pc[a] = "jdelete"
    /\ tx' = [tx EXCEPT ![a] = DeleteAll(tx[a])]
    /\ pc' = [pc EXCEPT ![a] = "jentries"]
    /\ UNCHANGED <<dbExists, db, engines, src, batch, cur, pre, outcome, obs, hist>>
    /\ UNCHANGED notStore

\* Lines 502-515: data.items() (raises on a list), then one iteration of the
\* loop over the groups: merge the Group, then its members.
JsonEntry(a) ==
    /\ pc[a] = "jentries"
    /\ src[a].top # "dict" \/ cur[a] <= Len(src[a].entries)
    /\ IF src[a].top # "dict"
          THEN JsonFail(a) /\ UNCHANGED <<tx, cur>>
          ELSE LET e == src[a].entries[cur[a]]
                   g == Group(e.gid, IF e.hasName THEN e.group_name ELSE "Unknown")
                   r == MergeJsonMembers(tx[a].members, e.gid, e.members, 1, a)
               IN  IF ~e.isDict
                      THEN JsonFail(a) /\ UNCHANGED <<tx, cur>>
                   ELSE IF ~e.membersIsDict \/ ~r.ok
                      THEN /\ JsonFail(a)
                           /\ tx' = [tx EXCEPT ![a].groups = MergeGroup(@, g),
                                               ![a].members = r.members]
                           /\ UNCHANGED cur
                   ELSE /\ tx' = [tx EXCEPT ![a].groups = MergeGroup(@, g),
                                            ![a].members = r.members]
                        /\ cur' = [cur EXCEPT ![a] = @ + 1]
                        /\ UNCHANGED <<db, pc, pre, outcome, obs>>
    /\ UNCHANGED <<dbExists, engines, src, batch, hist>>
    /\ UNCHANGED notStore

\* Lines 517-519: commit and close.
JsonCommit(a) ==
    /\ pc[a] = "jentries"
    /\ src[a].top = "dict"
    /\ cur[a] > Len(src[a].entries)
    /\ db' = [db EXCEPT ![a] = Committed(tx[a])]
    /\ pre' = [pre EXCEPT ![a] = Committed(tx[a])]
    /\ tx' = [tx EXCEPT ![a] = NoTx]
    /\ pc' = [pc EXCEPT ![a] = "idle"]
    /\ outcome' = [outcome EXCEPT ![a] = "ok"]
    /\ obs' = [obs EXCEPT ![a] = NoObs]
    /\ UNCHANGED <<dbExists, engines, src, batch, cur, hist>>
    /\ UNCHANGED notStore

\* The dropped session's connection is reclaimed once the failed request is
\* over: its open transaction is rolled back.
SessionFinalize(a) ==
    /\ pc[a] = "abandoned"
    /\ db' = [db EXCEPT ![a] = Rollback(db[a], tx[a])]
    /\ tx' = [tx EXCEPT ![a] = NoTx]
    /\ pc' = [pc EXCEPT ![a] = "idle"]
    /\ UNCHANGED <<dbExists, engines, src, batch, cur, pre, outcome, obs, hist>>
    /\ UNCHANGED notStore

----------------------------------------------------------------------------
(* The analysis endpoints: get_session, one SELECT, the rows as a list.     *)

\* Most group ids in the list given to analyze_intersection.
MaxListLen == 2

\* Largest min_groups given to get_frequent_users.
MaxMinGroups == 3

GroupIds == {"1", "2", "3"}

UserIds == {"7", "8", "9"}

GroupIdLists == SeqsUpTo(GroupIds, MaxListLen)

\* The texts of the group names and of the search strings, as character codes.
Chars(text) ==
    CASE text = "" -> << >>
      [] text = "_" -> << 95 >>
      [] text = "%" -> << 37 >>
      [] text = "b" -> << 98 >>
      [] text = "B" -> << 66 >>
      [] text = "x" -> << 120 >>
      [] text = "ab" -> << 97, 98 >>
      [] text = "Ab" -> << 65, 98 >>
      [] text = "a_b" -> << 97, 95, 98 >>
      [] text = "axb" -> << 97, 120, 98 >>
      [] text = "a%" -> << 97, 37 >>

QueryStrings == {"", "_", "%", "b", "B", "x"}

\* The rank of a user name in the BINARY collation, among the names of the model.
NameRank(name) ==
    CASE name = "Ann" -> 1
      [] name = "Bob" -> 2
      [] name = "Bobby" -> 3
      [] name = "Cy" -> 4

\* func.max(Member.user_name) over the rows of one user.
MaxName(names) == CHOOSE n \in names : \A o \in names : NameRank(o.s) <= NameRank(n.s)

\* LIKE folds the case of ASCII letters.
Fold(c) == IF c >= 65 /\ c <= 90 THEN c + 32 ELSE c

RECURSIVE LikeFrom(_, _, _, _)
\* pattern p from position i matches text s from position j: % is any run of
\* characters, _ is any one character, any other character is itself.
LikeFrom(p, i, s, j) ==
    IF i > Len(p) THEN j > Len(s)
    ELSE IF p[i] = 37 THEN \E k \in j..(Len(s) + 1) : LikeFrom(p, i + 1, s, k)
    ELSE IF j > Len(s) THEN FALSE
    ELSE IF p[i] = 95 THEN LikeFrom(p, i + 1, s, j + 1)
    ELSE Fold(p[i]) = Fold(s[j]) /\ LikeFrom(p, i + 1, s, j + 1)

\* Group.group_name.like(f"%{q}%")
Like(name, q) == LikeFrom(<< 37 >> \o Chars(q) \o << 37 >>, 1, Chars(name), 1)

\* .limit(20)
SearchLimit == 20

\* The lists a statement without ORDER BY may return for the rows S.
Orderings(S) ==
    { f \in [1..Cardinality(S) -> S] : \A i, j \in 1..Cardinality(S) : i # j => f[i] # f[j] }

\* LIMIT n on the rows S.
Limited(S, n) ==
    IF Cardinality(S) <= n THEN {S} ELSE { T \in SUBSET S : Cardinality(T) = n }

\* Lines 529-532: the groups the statement may return.
SearchResults(rows, q) ==
    Limited(IF q # "" THEN { g \in rows.groups : Like(g.group_name, q) } ELSE rows.groups,
            SearchLimit)

\* func.count(Member.group_id) of the rows grouped under user u.
GroupCount(members, u) == Cardinality({ m \in members : m.user_id = u })

\* GROUP BY user_id with a bare user_name: one row for each user of the rows
\* kept, its name taken from any of that user's rows, ordered by count descending.
CountedResults(members, kept) ==
    LET cands == { [user_id |-> m.user_id, user_name |-> m.user_name,
                    group_count |-> GroupCount(members, m.user_id)] : m \in kept }
        n == Cardinality({ c.user_id : c \in cands })
    IN  { f \in [1..n -> cands] :
            /\ \A i, j \in 1..n : i # j => f[i].user_id # f[j].user_id
            /\ \A i, j \in 1..n : i < j => f[i].group_count >= f[j].group_count }

\* A HAVING that takes only the users of more than min_groups groups.
FrequentResultsAbove(rows, min_groups) ==
    CountedResults(rows.members,
                   { m \in rows.members : GroupCount(rows.members, m.user_id) > min_groups })

\* Lines 540-550: HAVING count >= min_groups.
FrequentResults(rows, min_groups) ==
    CountedResults(rows.members,
                   { m \in rows.members : GroupCount(rows.members, m.user_id) >= min_groups })

\* An overlap without the HAVING: every member of group_id.
OverlapResultsAll(rows, group_id) ==
    LET target_group_members == { m.user_id : m \in { x \in rows.members : x.group_id = group_id } }
    IN  CountedResults(rows.members,
                       { m \in rows.members : m.user_id \in target_group_members })

\* Lines 558-570: user_id IN (the members of group_id), HAVING count > 1.
OverlapResults(rows, group_id) ==
    LET target_group_members == { m.user_id : m \in { x \in rows.members : x.group_id = group_id } }
    IN  CountedResults(rows.members,
                       { m \in rows.members :
                           /\ m.user_id \in target_group_members
                           /\ GroupCount(rows.members, m.user_id) > 1 })

\* Lines 579-586: group_id IN group_ids, GROUP BY user_id,
\* HAVING count(distinct group_id) == len(group_ids).
IntersectionRows(rows, group_ids) ==
    LET listed == { m \in rows.members : \E i \in 1..Len(group_ids) : m.group_id = group_ids[i] }
        of(u) == { m \in listed : m.user_id = u }
        target_len == Len(group_ids)
    IN  { [user_id |-> u, user_name |-> MaxName({ m.user_name : m \in of(u) })] :
            u \in { v \in { m.user_id : m \in listed } :
                      Cardinality({ m.group_id : m \in of(v) }) = target_len } }

\* Lines 594-598: Group JOIN Member ON group_id, WHERE user_id = target_user_id.
UserGroupResults(rows, target_user_id) ==
    LET joined == { p \in rows.groups \X rows.members :
                      p[2].group_id = p[1].group_id /\ p[2].user_id = target_user_id }
    IN  { [i \in 1..Cardinality(joined) |->
             [group_name |-> f[i][1].group_name, nickname |-> f[i][2].user_group_name]] :
          f \in Orderings(joined) }

\* The record of a call: the endpoint, its argument (q, min_groups, group_id,
\* group_ids or user_id), the status, the rows read, and the list returned
\* (groups, users, counted or pairs).
NoQuery ==
    [op |-> "none", q |-> "", min_groups |-> 0, group_id |-> "", group_ids |-> << >>,
     user_id |-> "", status |-> "none", read |-> EmptyRows,
     groups |-> {}, users |-> {}, counted |-> << >>, pairs |-> << >>]

\* get_session(qq_id): a 404 when the file is missing, else the sessionmaker
\* is made, unless cached, and kept in the cache.
get_session(a) == engines' = IF dbExists[a] THEN engines \cup {a} ELSE engines

\* The call c answered from the committed rows, or with the 404 of get_session.
Answered(a, c) ==
    IF dbExists[a]
       THEN [c EXCEPT !.status = "ok", !.read = Visible(a)]
       ELSE [c EXCEPT !.status = "AccountNotFound"]

search_groups(a, q) ==
    /\ get_session(a)
    /\ \E r \in IF dbExists[a] THEN SearchResults(Visible(a), q) ELSE {{}} :
          qres' = Answered(a, [NoQuery EXCEPT !.op = "search_groups", !.q = q, !.groups = r])
    /\ UNCHANGED notQuery

get_frequent_users(a, min_groups) ==
    /\ get_session(a)
    /\ \E r \in IF dbExists[a] THEN FrequentResults(Visible(a), min_groups) ELSE {<< >>} :
          qres' = Answered(a, [NoQuery EXCEPT !.op = "frequent_users",
                                              !.min_groups = min_groups, !.counted = r])
    /\ UNCHANGED notQuery

analyze_group_overlap(a, group_id) ==
    /\ get_session(a)
    /\ \E r \in IF dbExists[a] THEN OverlapResults(Visible(a), group_id) ELSE {<< >>} :
          qres' = Answered(a, [NoQuery EXCEPT !.op = "group_overlap",
                                              !.group_id = group_id, !.counted = r])
    /\ UNCHANGED notQuery

\* `if not payload.group_ids: return []` comes before get_session.
analyze_intersection(a, group_ids) ==
    /\ IF group_ids = << >>
          THEN /\ qres' = [NoQuery EXCEPT !.op = "intersection", !.status = "ok"]
               /\ UNCHANGED engines
          ELSE /\ get_session(a)
               /\ qres' = Answered(a, [NoQuery EXCEPT
                             !.op = "intersection", !.group_ids = group_ids,
                             !.users = IF dbExists[a]
                                          THEN IntersectionRows(Visible(a), group_ids)
                                          ELSE {}])
    /\ UNCHANGED notQuery

get_user_group_details(a, target_user_id) ==
    /\ get_session(a)
    /\ \E r \in IF dbExists[a] THEN UserGroupResults(Visible(a), target_user_id) ELSE {<< >>} :
          qres' = Answered(a, [NoQuery EXCEPT !.op = "user_groups",
                                              !.user_id = target_user_id, !.pairs = r])
    /\ UNCHANGED notQuery

\* No call of an analysis endpoint.
QueryOff == qres = NoQuery

----------------------------------------------------------------------------
(* Pipeline.decrypt_db and Pipeline._find_sqlcipher_binary.                *)

\* candidates = ["sqlcipher", "sqlcipher-x64", "sqlcipher-x86"], each with
\* ".exe" appended on win32.
candidates(platform) ==
    IF platform = "win32"
       THEN << "sqlcipher.exe", "sqlcipher-x64.exe", "sqlcipher-x86.exe" >>
       ELSE << "sqlcipher", "sqlcipher-x64", "sqlcipher-x86" >>

\* What running a candidate with ".quit" on its input does: it runs, it is not
\* on the PATH (FileNotFoundError), or it exits non-zero (CalledProcessError).
ProbeOutcomes == {"runs", "missing", "nonzero"}

\* The probe of one candidate is caught and the next one tried.
ProbeContinues(o) == o \in {"missing", "nonzero"}

\* The message of the exception raised when no strategy is left.
error_detail == "cannot decrypt: no pysqlcipher3, no sqlcipher executable; set up the environment or import group_info.decrypted.db"

\* A non-zero exit reported with the message of the missing backends.
CliErrorAsDetail == error_detail

\* The message raised when the executable exits non-zero: its stderr.
CliError == "sqlcipher command line failed: stderr"

\* An exception of the library or of the operating system, passed on as it is.
RawError(what) == [status |-> "failed", error |-> what]

\* `if "无法解密数据库" in error_msg`: the message carries the remediation text.
HasRemediation(msg) == msg = error_detail

\* An attempt that does not remove the output first.
KeepOutput(f) == f

\* `if os.path.exists(decrypted_path): os.remove(decrypted_path)`
RemoveIfExists(f) == "absent"

NoResult == [status |-> "none", error |-> ""]

\* Line 167: `if sqlcipher is not None`, then lines 169-170.
DecStart ==
    /\ dpc = "start"
    /\ IF env.lib
          THEN /\ outFile' = RemoveIfExists(outFile)
               /\ dpc' = "lib_fresh"
               /\ dlog' = Append(dlog, "lib_remove")
          ELSE /\ dpc' = "find"
               /\ UNCHANGED <<outFile, dlog>>
    /\ UNCHANGED <<env, probe, cmd_tool, dres>>
    /\ UNCHANGED notDecrypt

\* Lines 172-174, before the try: create the plaintext file. The error of a
\* connect that cannot open the path leaves decrypt_db.
LibFresh ==
    /\ dpc = "lib_fresh"
    /\ \/ /\ outFile' = "empty"
          /\ dpc' = "lib_export"
          /\ dlog' = Append(dlog, "lib_connect")
          /\ UNCHANGED dres
       \/ /\ dres' = RawError("sqlcipher.connect: unable to open database file")
          /\ dpc' = "done"
          /\ dlog' = Append(dlog, "lib_error")
          /\ UNCHANGED outFile
    /\ UNCHANGED <<env, probe, cmd_tool>>
    /\ UNCHANGED notDecrypt

\* Lines 175-195, the try: key, attach, export, detach, commit. Any Exception
\* is printed and the command line is tried next.
LibExport ==
    /\ dpc = "lib_export"
    /\ \/ /\ outFile' = "plain"
          /\ dres' = [status |-> "ok", error |-> ""]
          /\ dpc' = "done"
          /\ dlog' = Append(dlog, "lib_ok")
       \/ /\ outFile' \in {"empty", "partial"}
          /\ dpc' = "find"
          /\ dlog' = Append(dlog, "lib_error")
          /\ UNCHANGED dres
    /\ UNCHANGED <<env, probe, cmd_tool>>
    /\ UNCHANGED notDecrypt

\* Lines 148-157: one iteration of the loop over the candidates, or its end.
FindBinary ==
    /\ dpc = "find"
    /\ IF probe > Len(candidates(env.platform))
          THEN /\ dpc' = "no_tool"
               /\ dlog' = Append(dlog, "find_none")
               /\ UNCHANGED <<probe, cmd_tool, dres>>
       ELSE IF env.cands[probe] = "runs"
          THEN /\ cmd_tool' = candidates(env.platform)[probe]
               /\ dpc' = "cli_remove"
               /\ dlog' = Append(dlog, "find_tool")
               /\ UNCHANGED <<probe, dres>>
       ELSE /\ ProbeContinues(env.cands[probe])
            /\ probe' = probe + 1
            /\ dlog' = Append(dlog, "probe")
            /\ UNCHANGED <<dpc, cmd_tool, dres>>
    /\ UNCHANGED <<env, outFile>>
    /\ UNCHANGED notDecrypt

\* Lines 199-202: the executable was found, remove the output.
CliRemove ==
    /\ dpc = "cli_remove"
    /\ outFile' = RemoveIfExists(outFile)
    /\ dpc' = "cli_run"
    /\ dlog' = Append(dlog, "cli_remove")
    /\ UNCHANGED <<env, probe, cmd_tool, dres>>
    /\ UNCHANGED notDecrypt

\* Lines 220-233: pipe the script to the executable; a non-zero exit raises.
CliRun ==
    /\ dpc = "cli_run"
    /\ \/ /\ outFile' = "plain"
          /\ dres' = [status |-> "ok", error |-> ""]
          /\ dlog' = Append(dlog, "cli_ok")
       \/ /\ outFile' \in {"absent", "partial"}
          /\ dres' = [status |-> "failed", error |-> CliError]
          /\ dlog' = Append(dlog, "cli_error")
    /\ dpc' = "done"
    /\ UNCHANGED <<env, probe, cmd_tool>>
    /\ UNCHANGED notDecrypt

\* Lines 236-241: every strategy failed.
NoBackend ==
    /\ dpc = "no_tool"
    /\ dres' = [status |-> "failed", error |-> error_detail]
    /\ dpc' = "done"
    /\ dlog' = Append(dlog, "raise_detail")
    /\ UNCHANGED <<env, outFile, probe, cmd_tool>>
    /\ UNCHANGED notDecrypt

decrypt_db ==
    \/ DecStart
    \/ LibFresh
    \/ LibExport
    \/ FindBinary
    \/ CliRemove
    \/ CliRun
    \/ NoBackend

\* No call of decrypt_db.
DecOff ==
    /\ env = [lib |-> FALSE, platform |-> "linux", hadOutput |-> FALSE,
              cands |-> << "missing", "missing", "missing" >>]
    /\ dpc = "off"
    /\ outFile = "absent"
    /\ probe = 1
    /\ cmd_tool = ""
    /\ dres = NoResult
    /\ dlog = << >>

\* A call of decrypt_db: with or without the library, every outcome of each
\* candidate's probe, with or without a file at the output path.
InitDecrypt ==
    /\ env \in [lib : BOOLEAN, platform : {"linux", "win32"}, hadOutput : BOOLEAN,
                cands : [1..3 -> ProbeOutcomes]]
    /\ dpc = "start"
    /\ outFile = IF env.hadOutput THEN "stale" ELSE "absent"
    /\ probe = 1
    /\ cmd_tool = ""
    /\ dres = NoResult
    /\ dlog = << >>

----------------------------------------------------------------------------
(* Pipeline.get_key and Pipeline.remove_header.                            *)

\* f.read(54)
HeaderChunkLen == 54

\* header_chunk[-8:]
SeedLen == 8

\* f.read()[1024:]
StripLen == 1024

\* Most bytes of a raw file after the first StripLen.
MaxTail == 2

Min(x, y) == IF x <= y THEN x ELSE y

\* bs[-n:] of a bytes object.
LastBytes(bs, n) == SubSeq(bs, Len(bs) - Min(n, Len(bs)) + 1, Len(bs))

\* bs[n:] of a bytes object.
BytesFrom(bs, n) == SubSeq(bs, n + 1, Len(bs))

HexDigit(d) == IF d < 10 THEN 48 + d ELSE 87 + d

\* The characters repr() writes for one byte, inside quotes of the kind chosen.
EscapeByte(b, doubleQuoted) ==
    IF b = 92 THEN << 92, 92 >>
    ELSE IF b = 9 THEN << 92, 116 >>
    ELSE IF b = 10 THEN << 92, 110 >>
    ELSE IF b = 13 THEN << 92, 114 >>
    ELSE IF b = 39 /\ ~doubleQuoted THEN << 92, 39 >>
    ELSE IF b >= 32 /\ b < 127 THEN << b >>
    ELSE << 92, 120, HexDigit(b \div 16), HexDigit(b % 16) >>

RECURSIVE EscapeFrom(_, _, _)
EscapeFrom(bs, k, doubleQuoted) ==
    IF k > Len(bs) THEN << >>
    ELSE EscapeByte(bs[k], doubleQuoted) \o EscapeFrom(bs, k + 1, doubleQuoted)

\* str(seed_bytes)[2:-1]: the repr of the bytes without b, and the quotes, which
\* are double when the bytes hold a ' and no ".
SeedStr(bs) ==
    LET has(c) == \E k \in 1..Len(bs) : bs[k] = c
    IN  EscapeFrom(bs, 1, has(39) /\ ~has(34))

\* md5(...): the digest, kept as the text it is the digest of.
md5(text) == [md5 |-> text]

\* Lines 125-131 on the bytes of the opened file.
KeyOf(uid, bytes) ==
    LET header_chunk == SubSeq(bytes, 1, Min(HeaderChunkLen, Len(bytes)))
        seed_bytes == LastBytes(header_chunk, SeedLen)
        seed_str == SeedStr(seed_bytes)
        uid_hash == md5(uid)
    IN  md5(<< uid_hash, seed_str >>)

NoKey == md5(<< >>)

\* get_key(nt_uid, db_file_path): open() raises when the file cannot be opened.
get_key ==
    /\ kres.status = "none"
    /\ kres' = IF rawFile.readable
                  THEN [status |-> "ok", key |-> KeyOf(nt_uid, rawFile.bytes)]
                  ELSE [status |-> "failed", key |-> NoKey]
    /\ UNCHANGED <<rawFile, nt_uid, destFile, sres>>
    /\ UNCHANGED notFiles

\* remove_header(source_path, dest_path): read all, write what follows byte 1024.
remove_header ==
    /\ sres = "none"
    /\ IF rawFile.readable
          THEN /\ destFile' = [exists |-> TRUE, bytes |-> BytesFrom(rawFile.bytes, StripLen)]
               /\ sres' = "ok"
          ELSE /\ sres' = "failed"
               /\ UNCHANGED destFile
    /\ UNCHANGED <<rawFile, nt_uid, kres>>
    /\ UNCHANGED notFiles

\* The byte at offset k of a file filled by the rule p.
PatternByte(p, k) == (p[1] * k + p[2]) % 256

Patterns == { << 1, 0 >>, << 1, 46 >>, << 5, 65 >> }

FileLens ==
    { 0, 1, SeedLen, SeedLen + 2, HeaderChunkLen - 1, HeaderChunkLen, HeaderChunkLen + 1,
      StripLen - 1 }
    \cup { StripLen + t : t \in 0..MaxTail }

FileBytes(n, p) == [k \in 1..n |-> PatternByte(p, k - 1)]

NoFile == [exists |-> FALSE, bytes |-> << >>]

\* No file handled.
FilesOff ==
    /\ rawFile = [readable |-> FALSE, bytes |-> << >>]
    /\ nt_uid = ""
    /\ destFile = NoFile
    /\ kres = [status |-> "off", key |-> NoKey]
    /\ sres = "off"

\* A raw file of one of the lengths and patterns, or one that cannot be opened.
InitFiles ==
    /\ rawFile \in { [readable |-> TRUE, bytes |-> FileBytes(n, p)] :
                       n \in FileLens, p \in Patterns }
                   \cup { [readable |-> FALSE, bytes |-> << >>] }
    /\ nt_uid \in { "u_A", "u_B" }
    /\ destFile = NoFile
    /\ kres = [status |-> "none", key |-> NoKey]
    /\ sres = "none"

\* A request of process_termux or process_manual: the payload, the source file
\* of process_termux, and the files the folder held when it arrived.
NoRequest ==
    [handler |-> "none", step |-> "", hasKey |-> FALSE, hasUid |-> FALSE, cleanup |-> FALSE,
     source |-> [readable |-> FALSE, bytes |-> << >>],
     hadRaw |-> FALSE, hadCleaned |-> FALSE, hadDecrypted |-> FALSE]

\* No request.
PipeOff == req = NoRequest /\ pp = "off" /\ resp = "none"

----------------------------------------------------------------------------
(* The specification of the store: imports and queries on MainAccounts.    *)

InitStore ==
    /\ dbExists = [a \in Accounts |-> FALSE]
    /\ db = [a \in Accounts |-> EmptyRows]
    /\ engines = {}
    /\ pc = [a \in Accounts |-> "idle"]
    /\ src = [a \in Accounts |-> NoSource]
    /\ tx = [a \in Accounts |-> NoTx]
    /\ batch = [a \in Accounts |-> << >>]
    /\ cur = [a \in Accounts |-> 1]
    /\ pre = [a \in Accounts |-> EmptyRows]
    /\ outcome = [a \in Accounts |-> "none"]
    /\ obs = [a \in Accounts |-> NoObs]
    /\ hist = [a \in Accounts |-> NoHist]

Init == InitStore /\ DecOff /\ FilesOff /\ QueryOff /\ DelOff /\ PipeOff

StoreNext ==
    \E a \in MainAccounts :
        \/ \E s \in RawSources : CleanBegin(a, s)
        \/ CleanDelete(a)
        \/ CleanGroups(a)
        \/ CleanSelect(a)
        \/ CleanRow(a)
        \/ CleanCommit(a)
        \/ \E s \in JsonSources : JsonBegin(a, s)
        \/ JsonDelete(a)
        \/ JsonEntry(a)
        \/ JsonCommit(a)
        \/ SessionFinalize(a)
        \/ Query(a)

Next == StoreNext

Spec == Init /\ [][Next]_vars

\* The specification of one decrypt_db call.
DecInit == InitStore /\ InitDecrypt /\ FilesOff /\ QueryOff /\ DelOff /\ PipeOff

DecNext == decrypt_db

SpecDecrypt == DecInit /\ [][DecNext]_vars

\* The specification of the two helpers on one raw file.
FilesInit == InitStore /\ DecOff /\ InitFiles /\ QueryOff /\ DelOff /\ PipeOff

FilesNext == get_key \/ remove_header

SpecFiles == FilesInit /\ [][FilesNext]_vars

\* The specification of the analysis endpoints: imports of the sources above,
\* and calls of the five endpoints in between.
QueryInit == InitStore /\ DecOff /\ FilesOff /\ QueryOff /\ DelOff /\ PipeOff

QueryNext ==
    \E a \in MainAccounts :
        \/ \E s \in { x \in QuerySources : x.kind = "raw" } : CleanBegin(a, s)
        \/ CleanDelete(a)
        \/ CleanGroups(a)
        \/ CleanSelect(a)
        \/ CleanRow(a)
        \/ CleanCommit(a)
        \/ \E s \in { x \in QuerySources : x.kind = "json" } : JsonBegin(a, s)
        \/ JsonDelete(a)
        \/ JsonEntry(a)
        \/ JsonCommit(a)
        \/ SessionFinalize(a)
        \/ \E q \in QueryStrings : search_groups(a, q)
        \/ \E n \in 0..MaxMinGroups : get_frequent_users(a, n)
        \/ \E g \in GroupIds : analyze_group_overlap(a, g)
        \/ \E gs \in GroupIdLists : analyze_intersection(a, gs)
        \/ \E u \in UserIds : get_user_group_details(a, u)

SpecQuery == QueryInit /\ [][QueryNext]_vars

\* The sources imported into the two accounts: a decrypted database, and a
\* payload of one group.
AccountSources ==
    { RawSource(TRUE, TRUE, 6, 6, OneGroup,
                << MRow(TextCell("nk"), TextCell("n1"), IntCell(1), TextCell("7")) >>),
      JsonSource("dict", << JGroup("2", TRUE, TRUE, "Y", TRUE, << Bob >>) >>) }

\* A step of a request for account a: an import, a query, a deletion.
AccountStep(a) ==
    \/ \E s \in { x \in AccountSources : x.kind = "raw" } : CleanBegin(a, s)
    \/ CleanDelete(a)
    \/ CleanGroups(a)
    \/ CleanSelect(a)
    \/ CleanRow(a)
    \/ CleanCommit(a)
    \/ \E s \in { x \in AccountSources : x.kind = "json" } : JsonBegin(a, s)
    \/ JsonDelete(a)
    \/ JsonEntry(a)
    \/ JsonCommit(a)
    \/ Query(a)
    \/ DeleteClose(a)
    \/ DeleteRemove(a)

\* The specification of the accounts: requests for both, interleaved.
AccountsInit == InitStore /\ DecOff /\ FilesOff /\ QueryOff /\ DelOff /\ PipeOff

AccountsNext == \E a \in Accounts : AccountStep(a)

SpecAccounts == AccountsInit /\ [][AccountsNext]_vars

----------------------------------------------------------------------------
(* The raw-table import over longer tables: rows that fill a batch, rows    *)
(* that are left for the save after the loop, rows that are skipped.        *)

\* Most rows of group_member3 in one of the sources below.
MaxBatchRows == 5

\* Three rows that are kept, a row with NULL in column 2, a row with NULL in
\* column 5, and a row of the account itself.
BatchRowDomain ==
    { MRow(TextCell("nk"), TextCell("n1"), IntCell(1), TextCell("7")),
      MRow(NULL, TextCell("n1"), TextCell("2"), TextCell("7")),
      MRow(TextCell(""), TextCell("n2"), IntCell(1), IntCell(8)),
      MRow(TextCell("nk"), TextCell("n1"), NULL, TextCell("7")),
      MRow(TextCell("nk"), TextCell("n1"), IntCell(2), NULL),
      MRow(TextCell("me"), TextCell("n0"), IntCell(1), IntCell(1000)) }

\* The decrypted databases: every sequence of those rows, in a table of six
\* columns, and one table of five columns.
BatchSources ==
    { RawSource(TRUE, TRUE, 6, 6, OneGroup, ml) :
        ml \in SeqsUpTo(BatchRowDomain, MaxBatchRows) }
    \cup
    { RawSource(TRUE, TRUE, 6, 5, OneGroup, TwoMembers) }

\* What an earlier run of the server left in an account's group_data.db.
StoredBefore ==
    [groups |-> { Group("1", "Alpha") },
     members |-> { Member("1", "7", TextCell("n1"), TextCell("nk")),
                   Member("3", "9", TextCell("n3"), TextCell("n3")) }]

\* The server starts with no group_data.db for the account, or with the one
\* an earlier run left.
BatchInit ==
    /\ \E before \in BOOLEAN :
          /\ dbExists = [a \in Accounts |-> before /\ a \in MainAccounts]
          /\ db = [a \in Accounts |->
                     IF before /\ a \in MainAccounts THEN StoredBefore ELSE EmptyRows]
          /\ pre = db
    /\ engines = {}
    /\ pc = [a \in Accounts |-> "idle"]
    /\ src = [a \in Accounts |-> NoSource]
    /\ tx = [a \in Accounts |-> NoTx]
    /\ batch = [a \in Accounts |-> << >>]
    /\ cur = [a \in Accounts |-> 1]
    /\ outcome = [a \in Accounts |-> "none"]
    /\ obs = [a \in Accounts |-> NoObs]
    /\ hist = [a \in Accounts |-> NoHist]
    /\ DecOff /\ FilesOff /\ QueryOff /\ DelOff /\ PipeOff

\* One import call on the account, of any of the sources.
BatchNext ==
    \E a \in MainAccounts :
        \/ outcome[a] = "none" /\ pc[a] = "idle" /\ \E s \in BatchSources : CleanBegin(a, s)
        \/ CleanDelete(a)
        \/ CleanGroups(a)
        \/ CleanSelect(a)
        \/ CleanRow(a)
        \/ CleanCommit(a)

SpecBatches == BatchInit /\ [][BatchNext]_vars

----------------------------------------------------------------------------
(* process_termux and process_manual: the stages of one request.           *)

\* The account of the request.
qq_id == "1000"

\* The files of the account's folder.
RawExists == rawFile.readable

CleanedExists == destFile.exists

DecryptedExists == outFile # "absent"

\* `key = payload.key; if not key: key = Pipeline.get_key(...)`; process_termux
\* always derives the key.
NeedsKey == req.step = "raw" /\ (req.handler = "termux" \/ ~req.hasKey)

\* The stages that have been called, and those that have returned.
KeyRan == kres.status \in {"ok", "failed"}

StripRan == sres \in {"ok", "failed"}

DecryptRan == dpc # "start"

TransformRan == pc[qq_id] # "idle" \/ outcome[qq_id] # "none"

KeyReturned == kres.status = "ok"

StripReturned == sres = "ok"

DecryptReturned == dpc = "done" /\ dres.status = "ok"

TransformReturned == pc[qq_id] = "idle" /\ outcome[qq_id] = "ok"

\* A stage has raised: the except of the handler is next.
StageRaised ==
    \/ kres.status = "failed"
    \/ sres = "failed"
    \/ dpc = "done" /\ dres.status = "failed"
    \/ pc[qq_id] = "idle" /\ outcome[qq_id] = "failed"

\* The statement before remove_header has returned.
StripReady == req.step = "raw" /\ (NeedsKey => KeyReturned)

\* The statement before decrypt_db has returned.
DecryptReady ==
    \/ req.step = "raw" /\ StripReturned
    \/ req.step = "cleaned"

\* A handler that goes on to the transform whatever decrypt_db did.
TransformReadyAnyway ==
    \/ req.step \in {"raw", "cleaned"} /\ dpc = "done"
    \/ req.step = "decrypted"

\* The statement before clean_data_to_analysis_db has returned.
TransformReady ==
    \/ req.step \in {"raw", "cleaned"} /\ DecryptReturned
    \/ req.step = "decrypted"

\* Every statement of the request's branch has returned.
BranchReturned ==
    \/ req.step \in {"raw", "cleaned", "decrypted"} /\ TransformReturned
    \/ req.step = "other"

\* The checks at the head of the branch: the HTTPException they raise.
Rejected ==
    IF req.handler = "termux" THEN ~req.source.readable
    ELSE \/ req.step = "raw" /\ (~RawExists \/ (~req.hasUid /\ ~req.hasKey))
         \/ req.step = "cleaned" /\ (~CleanedExists \/ ~req.hasKey)
         \/ req.step = "decrypted" /\ ~DecryptedExists

\* Lines 407-410 and 442-469: the checks, and the copy of process_termux.
PipeCheck ==
    /\ pp = "received"
    /\ IF Rejected
          THEN /\ pp' = "done"
               /\ resp' = "500"
               /\ UNCHANGED rawFile
          ELSE /\ pp' = "checked"
               /\ rawFile' = IF req.handler = "termux" THEN req.source ELSE rawFile
               /\ UNCHANGED resp
    /\ UNCHANGED <<req, nt_uid, destFile, kres, sres>>
    /\ UNCHANGED <<storeVars, decVars, queryVars, delVars>>

\* Lines 412 and 451.
PipeKey == pp = "checked" /\ NeedsKey /\ get_key

\* Lines 413 and 453.
PipeStrip == pp = "checked" /\ StripReady /\ remove_header

\* Lines 414, 454 and 463.
PipeDecrypt == pp = "checked" /\ DecryptReady /\ decrypt_db

\* The decrypted databases the transform may find.
PipeSources ==
    { RawSource(TRUE, TRUE, 6, 6, OneGroup,
                << MRow(TextCell("nk"), TextCell("n1"), IntCell(1), TextCell("7")) >>),
      RawSource(TRUE, FALSE, 6, 6, OneGroup, << >>) }

\* Lines 415, 455, 464 and 469.
PipeTransform ==
    /\ pp = "checked"
    /\ TransformReady
    /\ \/ /\ outcome[qq_id] = "none"
          /\ \E s \in PipeSources : CleanBegin(qq_id, s)
       \/ CleanDelete(qq_id)
       \/ CleanGroups(qq_id)
       \/ CleanSelect(qq_id)
       \/ CleanRow(qq_id)
       \/ CleanCommit(qq_id)

\* Lines 423-429 and 481-485: a stage has raised, the handler raises the 500.
PipeFail ==
    /\ pp = "checked"
    /\ StageRaised
    /\ pp' = "done"
    /\ resp' = "500"
    /\ UNCHANGED req
    /\ UNCHANGED <<storeVars, decVars, fileVars, queryVars, delVars>>

\* `if payload.cleanup` (417), `if payload.cleanup and payload.step != "decrypted"` (471).
CleansUp == req.cleanup /\ (req.handler = "termux" \/ req.step # "decrypted")

\* Lines 417-421 and 471-479: the cleanup and the response.
PipeFinish ==
    /\ pp = "checked"
    /\ BranchReturned
    /\ pp' = "done"
    /\ resp' = "success"
    /\ IF CleansUp
          THEN /\ rawFile' = [readable |-> FALSE, bytes |-> << >>]
               /\ destFile' = NoFile
               /\ outFile' = RemoveIfExists(outFile)
          ELSE UNCHANGED <<rawFile, destFile, outFile>>
    /\ UNCHANGED <<req, nt_uid, kres, sres, env, dpc, probe, cmd_tool, dres, dlog>>
    /\ UNCHANGED <<storeVars, queryVars, delVars>>

\* The raw files of a request: none, one shorter than the header, a full one.
PipeRawFiles ==
    { [readable |-> FALSE, bytes |-> << >>],
      [readable |-> TRUE, bytes |-> FileBytes(SeedLen, << 1, 0 >>)],
      [readable |-> TRUE, bytes |-> FileBytes(StripLen + 1, << 1, 0 >>)] }

Payloads ==
    { [handler |-> "termux", step |-> "raw", hasKey |-> FALSE, hasUid |-> TRUE, cleanup |-> c] :
        c \in BOOLEAN }
    \cup
    [handler : {"manual"}, step : {"raw", "cleaned", "decrypted", "other"},
     hasKey : BOOLEAN, hasUid : BOOLEAN, cleanup : BOOLEAN]

\* A request arrives: any payload, any files in the folder, any backends.
InitPipe ==
    /\ pp = "received"
    /\ resp = "none"
    /\ rawFile \in PipeRawFiles
    /\ destFile \in { NoFile, [exists |-> TRUE, bytes |-> << >>] }
    /\ kres = [status |-> "none", key |-> NoKey]
    /\ sres = "none"
    /\ env \in [lib : BOOLEAN, platform : {"linux"}, hadOutput : BOOLEAN,
                cands : { << "missing", "missing", "missing" >>,
                          << "nonzero", "runs", "missing" >> }]
    /\ dpc = "start"
    /\ outFile = IF env.hadOutput THEN "stale" ELSE "absent"
    /\ probe = 1
    /\ cmd_tool = ""
    /\ dres = NoResult
    /\ dlog = << >>
    /\ \E p \in Payloads, f \in PipeRawFiles :
          req = [handler |-> p.handler, step |-> p.step, hasKey |-> p.hasKey,
                 hasUid |-> p.hasUid, cleanup |-> p.cleanup,
                 source |-> IF p.handler = "termux" THEN f ELSE NoRequest.source,
                 hadRaw |-> RawExists, hadCleaned |-> CleanedExists,
                 hadDecrypted |-> DecryptedExists]
    /\ nt_uid = IF req.hasUid THEN "u_A" ELSE ""

\* The specification of one request of process_termux or process_manual.
PipeInit == InitStore /\ InitPipe /\ QueryOff /\ DelOff

PipeNext ==
    \/ PipeCheck
    \/ PipeKey
    \/ PipeStrip
    \/ PipeDecrypt
    \/ PipeTransform
    \/ PipeFail
    \/ PipeFinish

SpecPipeline == PipeInit /\ [][PipeNext]_vars

----------------------------------------------------------------------------
(* What an import of a source is to leave, stated on the source as a whole. *)

\* The rows of group_member3 that are neither skipped nor the account's own.
KeptRows(s, a) ==
    { k \in 1..Len(s.group_member3) :
        /\ s.memberCols > 5
        /\ s.group_member3[k].c2 # NULL
        /\ s.group_member3[k].c5 # NULL
        /\ PyStr(s.group_member3[k].c5) # a }

\* The (group_id, user_id) of row k.
RowKey(s, k) == <<PyStr(s.group_member3[k].c2), PyStr(s.group_member3[k].c5)>>

\* Two kept rows of the source name the same (group_id, user_id).
RepeatsPair(s, a) ==
    /\ s.kind = "raw"
    /\ \E i, j \in KeptRows(s, a) : i < j /\ RowKey(s, i) = RowKey(s, j)

ExpectedRawGroups(s) ==
    IF s.groupCols <= 5 THEN {}
    ELSE { Group(PyStr(s.group_list[k].c0), PyStr(s.group_list[k].c5)) :
             k \in { i \in 1..Len(s.group_list) :
                       \A j \in 1..Len(s.group_list) :
                          PyStr(s.group_list[j].c0) = PyStr(s.group_list[i].c0) => j <= i } }

ExpectedRawMembers(s, a) ==
    { Member(PyStr(s.group_member3[k].c2), PyStr(s.group_member3[k].c5),
             s.group_member3[k].c1,
             IF s.group_member3[k].c0 \in {NULL, TextCell("")}
                THEN s.group_member3[k].c1 ELSE s.group_member3[k].c0) :
        k \in KeptRows(s, a) }

ExpectedJsonGroups(s) ==
    { Group(s.entries[k].gid,
            IF s.entries[k].hasName THEN s.entries[k].group_name ELSE "Unknown") :
        k \in 1..Len(s.entries) }

ExpectedJsonMembers(s, a) ==
    UNION { { Member(s.entries[k].gid, s.entries[k].members[n].uid,
                     TextCell(IF s.entries[k].members[n].hasName
                                 THEN s.entries[k].members[n].user_name ELSE ""),
                     TextCell(IF s.entries[k].members[n].hasNick
                                 THEN s.entries[k].members[n].user_group_name ELSE "")) :
                n \in { i \in 1..Len(s.entries[k].members) :
                          s.entries[k].members[i].uid # a } } :
            k \in 1..Len(s.entries) }

\* The Group and Member rows an import of s into account a is to leave.
ExpectedRows(s, a) ==
    IF s.kind = "raw"
       THEN [groups |-> ExpectedRawGroups(s), members |-> ExpectedRawMembers(s, a)]
       ELSE [groups |-> ExpectedJsonGroups(s), members |-> ExpectedJsonMembers(s, a)]

\* The source holds a Member row of the account itself.
HasSelfRow(s, a) ==
    \/ /\ s.kind = "raw"
       /\ s.memberCols > 5
       /\ \E k \in 1..Len(s.group_member3) :
             /\ s.group_member3[k].c2 # NULL
             /\ s.group_member3[k].c5 # NULL
             /\ PyStr(s.group_member3[k].c5) = a
    \/ /\ s.kind = "json"
       /\ \E k \in 1..Len(s.entries) :
             \E n \in 1..Len(s.entries[k].members) : s.entries[k].members[n].uid = a

----------------------------------------------------------------------------
(* The claims.                                                             *)

\* C1: self-exclusion. In every reachable state, after any sequence of imports
\* by either path, the committed rows of account a hold no Member whose
\* user_id is a.
C1_SelfExclusion ==
    \A a \in Accounts : \A m \in db[a].members : m.user_id # a

\* C1 witness: an import whose source held a row of the account itself has
\* committed, and left other members.
C1_Witness ==
    \E a \in Accounts :
        /\ pc[a] = "idle" /\ outcome[a] = "ok"
        /\ HasSelfRow(src[a], a)
        /\ db[a].members # {}

\* C2: rollback on error. Once an import call has failed, the committed rows of
\* the account are the rows that were committed when the call began.
C2_RollbackOnError ==
    \A a \in Accounts : outcome[a] = "failed" => db[a] = pre[a]

\* C2 witness: a raw-table import that began over stored rows has failed after
\* its transaction deleted them.
C2_Witness ==
    \E a \in Accounts :
        /\ pc[a] = "idle" /\ outcome[a] = "failed"
        /\ src[a].kind = "raw"
        /\ hist[a].over
        /\ db[a].members # {}

\* C3: idempotent overwrite and full replacement. After every successful import
\* the committed rows are the rows of that import's source alone, whatever was
\* stored before: a second import of the same source leaves the same rows, and
\* an import of another source leaves nothing of the first.
C3_FullReplacement ==
    \A a \in Accounts :
        (pc[a] = "idle" /\ outcome[a] = "ok") => db[a] = ExpectedRows(src[a], a)

\* C3 witness: a successful import over stored rows, of the same source as the
\* successful import before it.
C3_Witness ==
    \E a \in Accounts :
        /\ pc[a] = "idle" /\ outcome[a] = "ok"
        /\ hist[a].over /\ hist[a].again
        /\ db[a].members # {}

\* C4 (as claimed): no two committed Member rows share (group_id, user_id), and
\* an import whose source names a pair twice completes and leaves one row for it,
\* the later occurrence.
C4_UniquePairOverwrite ==
    \A a \in Accounts :
        /\ \A m, n \in db[a].members : MemberKey(m) = MemberKey(n) => m = n
        /\ (pc[a] = "idle" /\ outcome[a] # "none" /\ RepeatsPair(src[a], a)
              /\ src[a].hasGroupList /\ src[a].hasMembers)
           => /\ outcome[a] = "ok"
              /\ \A k \in KeptRows(src[a], a) :
                    (\A j \in KeptRows(src[a], a) : RowKey(src[a], j) = RowKey(src[a], k) => j <= k)
                    => \E m \in db[a].members :
                          /\ MemberKey(m) = RowKey(src[a], k)
                          /\ m.user_name = src[a].group_member3[k].c1

\* C5: no partial state visible to queries. What a query on account a read is
\* the complete set committed before the import in flight (or just failed), or
\* the complete set the import committed.
C5_NoPartialState ==
    \A a \in Accounts :
        (obs[a].seen /\ obs[a].found) =>
            \/ obs[a].rows = pre[a]
            \/ outcome[a] = "ok" /\ obs[a].rows = ExpectedRows(src[a], a)

\* C5 witness: a query ran, over stored rows, while the import's transaction
\* held uncommitted changes.
C5_Witness ==
    \E a \in Accounts :
        /\ obs[a].seen /\ obs[a].found /\ obs[a].dirty
        /\ obs[a].rows.members # {}

\* The steps of the decrypt_db call so far.
Logged(e) == \E i \in 1..Len(dlog) : dlog[i] = e

LibErrored == Logged("lib_error")

ExternalAttempted == Logged("probe") \/ Logged("find_none") \/ Logged("find_tool")

DecFailed == dpc = "done" /\ dres.status = "failed"

\* C6 (as claimed): the in-process backend is tried first; the external one is
\* attempted only after the in-process one was unavailable or raised; a success
\* of the in-process backend ends the call; and every error the in-process
\* backend raises leads to the external backend being attempted.
C6_OrderAndFallback ==
    /\ (env.lib /\ dlog # << >>) => dlog[1] = "lib_remove"
    /\ ExternalAttempted => (~env.lib \/ LibErrored)
    /\ Logged("lib_ok") => ~ExternalAttempted
    /\ (dpc = "done" /\ LibErrored) => ExternalAttempted

\* C7 (as claimed): after every failed decrypt_db call the file that was at the
\* output path before the call is no longer there as it was.
C7_NoStaleAfterFailure ==
    (DecFailed /\ env.hadOutput) => outFile # "stale"

\* C7 (amended): after a failed call in which a backend was attempted (the
\* library is present, or an executable was found) the earlier output file is
\* gone, and it is removed before each attempt; a call that fails with no
\* library and no executable found leaves the earlier file as it was.
C7_NoStaleAfterAttempt ==
    /\ (DecFailed /\ (env.lib \/ cmd_tool # "")) => outFile # "stale"
    /\ dpc \in {"lib_fresh", "cli_run"} => outFile = "absent"
    /\ (DecFailed /\ ~env.lib /\ cmd_tool = "" /\ env.hadOutput) => outFile = "stale"

\* C7 witness: a call over an earlier output file has failed after both
\* backends were attempted.
C7_Witness ==
    /\ DecFailed /\ env.hadOutput
    /\ LibErrored /\ Logged("cli_error")

C9_StripHeader ==
    (sres \notin {"none", "off"} /\ rawFile.readable) =>
        IF Len(rawFile.bytes) >= StripLen
           THEN /\ sres = "ok"
                /\ destFile.exists
                /\ Len(destFile.bytes) = Len(rawFile.bytes) - StripLen
                /\ \A k \in 1..Len(destFile.bytes) :
                      destFile.bytes[k] = rawFile.bytes[StripLen + k]
           ELSE sres = "failed" /\ ~destFile.exists

\* C10 (as claimed): get_key fails, returning no key, whenever the raw file is
\* shorter than 54 bytes; a key is returned only for a seed that is bytes
\* 46..53 of a full 54-byte header.
C10_ShortFileFails ==
    kres.status \notin {"none", "off"} =>
        /\ (~rawFile.readable \/ Len(rawFile.bytes) < HeaderChunkLen) => kres.status = "failed"
        /\ kres.status = "ok" =>
              /\ Len(rawFile.bytes) >= HeaderChunkLen
              /\ kres.key = md5(<< md5(nt_uid),
                                   SeedStr(SubSeq(rawFile.bytes, HeaderChunkLen - SeedLen + 1,
                                                  HeaderChunkLen)) >>)

\* The in-group nickname the source gives for a kept row of group_member3, when
\* it is present and non-empty.
RawNickGiven(row) == row.c0 \notin {NULL, TextCell("")}

\* The same for an entry of a payload's "members".
JsonNickGiven(m) == m.hasNick /\ m.user_group_name # ""

\* C13 (as claimed): nickname fallback. After a successful import by either
\* path, the user_group_name of every Member row is the nickname the source
\* gives for it when that is present and non-empty, and the row's user_name
\* otherwise.
C13_NicknameFallback ==
    \A a \in Accounts :
        (pc[a] = "idle" /\ outcome[a] = "ok") =>
            \A m \in db[a].members :
                IF src[a].kind = "raw"
                   THEN \A k \in KeptRows(src[a], a) :
                          RowKey(src[a], k) = MemberKey(m) =>
                             m.user_group_name =
                                IF RawNickGiven(src[a].group_member3[k])
                                   THEN src[a].group_member3[k].c0
                                   ELSE m.user_name
                   ELSE \A k \in 1..Len(src[a].entries) :
                          \A n \in 1..Len(src[a].entries[k].members) :
                             <<src[a].entries[k].gid, src[a].entries[k].members[n].uid>> = MemberKey(m) =>
                                m.user_group_name =
                                   IF JsonNickGiven(src[a].entries[k].members[n])
                                      THEN TextCell(src[a].entries[k].members[n].user_group_name)
                                      ELSE m.user_name

\* The endpoint op has answered from the rows it read.
Returned(op) == qres.op = op /\ qres.status = "ok"

\* The groups in which user u has a Member row.
GroupsOf(members, u) == { m.group_id : m \in { x \in members : x.user_id = u } }

\* The users that have a Member row.
UsersOf(members) == { m.user_id : m \in members }

\* The user ids of a list of result rows, and the list has no user twice.
ListedUsers(rows) == { rows[i].user_id : i \in 1..Len(rows) }

NoUserTwice(rows) == \A i, j \in 1..Len(rows) : i # j => rows[i].user_id # rows[j].user_id

NonIncreasing(rows) ==
    \A i, j \in 1..Len(rows) : i < j => rows[i].group_count >= rows[j].group_count

\* C11 (as claimed): intersection(groupIds) returns exactly the users that have a
\* Member row in every group named in groupIds, for every non-empty list,
\* also one that names a group more than once; intersection([]) is empty.
C11_Intersection ==
    Returned("intersection") =>
        { r.user_id : r \in qres.users } =
            IF qres.group_ids = << >> THEN {}
            ELSE { u \in UsersOf(qres.read.members) :
                     \A i \in 1..Len(qres.group_ids) :
                        qres.group_ids[i] \in GroupsOf(qres.read.members, u) }

\* C12 (as claimed): userGroups(userId) returns one (groupName, nickname) pair
\* for every group in which userId has a Member row, also when a Member row
\* names a group that has no Group row.
C12_UserGroups ==
    Returned("user_groups") =>
        /\ Len(qres.pairs) = Cardinality(GroupsOf(qres.read.members, qres.user_id))
        /\ \A m \in qres.read.members :
              m.user_id = qres.user_id =>
                 \E i \in 1..Len(qres.pairs) : qres.pairs[i].nickname = m.user_group_name

\* C14: frequentUsers(minGroups) returns exactly the users whose number of
\* distinct groups is at least minGroups, each once and with that number as
\* groupCount, in an order of non-increasing groupCount.
C14_FrequentUsers ==
    Returned("frequent_users") =>
        /\ ListedUsers(qres.counted) =
              { u \in UsersOf(qres.read.members) :
                  Cardinality(GroupsOf(qres.read.members, u)) >= qres.min_groups }
        /\ NoUserTwice(qres.counted)
        /\ \A i \in 1..Len(qres.counted) :
              qres.counted[i].group_count =
                 Cardinality(GroupsOf(qres.read.members, qres.counted[i].user_id))
        /\ NonIncreasing(qres.counted)

\* C14 witness: frequentUsers(2) has returned two users with different counts
\* and left out a user of one group.
C14_Witness ==
    /\ Returned("frequent_users") /\ qres.min_groups = 2
    /\ Len(qres.counted) = 2
    /\ qres.counted[1].group_count > qres.counted[2].group_count
    /\ \E u \in UsersOf(qres.read.members) : u \notin ListedUsers(qres.counted)

\* C15: groupOverlap(groupId) returns exactly the users with a Member row in
\* groupId and one in another group, each once and with its total number of
\* distinct groups, which is more than 1, in an order of non-increasing count.
C15_GroupOverlap ==
    Returned("group_overlap") =>
        /\ ListedUsers(qres.counted) =
              { u \in UsersOf(qres.read.members) :
                  /\ qres.group_id \in GroupsOf(qres.read.members, u)
                  /\ GroupsOf(qres.read.members, u) # {qres.group_id} }
        /\ NoUserTwice(qres.counted)
        /\ \A i \in 1..Len(qres.counted) :
              /\ qres.counted[i].group_count =
                    Cardinality(GroupsOf(qres.read.members, qres.counted[i].user_id))
              /\ qres.counted[i].group_count > 1
        /\ NonIncreasing(qres.counted)

\* C15 witness: groupOverlap has returned a user, left out a member of the
\* group that is in no other group, and left out a user of two groups that is
\* not in the group.
C15_Witness ==
    /\ Returned("group_overlap")
    /\ Len(qres.counted) >= 1
    /\ \E u \in UsersOf(qres.read.members) :
          GroupsOf(qres.read.members, u) = {qres.group_id}
    /\ \E u \in UsersOf(qres.read.members) :
          /\ qres.group_id \notin GroupsOf(qres.read.members, u)
          /\ Cardinality(GroupsOf(qres.read.members, u)) > 1

\* text holds part as a run of consecutive characters.
Contains(text, part) ==
    \E k \in 0..(Len(text) - Len(part)) : SubSeq(text, k + 1, k + Len(part)) = part

\* C19 (as claimed): searchGroups(q) returns only groups whose name holds q as
\* a literal substring, also when q holds % or _; an empty q returns every
\* group; no result has more than 20 groups.
C19_SearchLiteral ==
    Returned("search_groups") =>
        /\ \A g \in qres.groups : Contains(Chars(g.group_name), Chars(qres.q))
        /\ qres.q = "" => qres.groups = qres.read.groups
        /\ Cardinality(qres.groups) <= SearchLimit

\* A step in which close_engine(a) is called: by delete_user, or by the
\* init_user_db of an import.
ClosesEngine(a) ==
    \/ DeleteClose(a)
    \/ \E s \in AccountSources : s.kind = "raw" /\ CleanBegin(a, s)
    \/ \E s \in AccountSources : s.kind = "json" /\ s.top # "invalid" /\ JsonBegin(a, s)

\* C16: close_engine is idempotent. After a step that calls close_engine(a) the
\* cache holds no entry for a, a second call would change nothing, a call made
\* when a had no entry changed nothing, and the entries of every other account
\* are as they were.
C16_CloseIdempotent ==
    [][\A a \in Accounts :
          ClosesEngine(a) =>
             /\ a \notin engines'
             /\ close_engine(engines', a) = engines'
             /\ a \notin engines => engines' = engines
             /\ \A b \in Accounts \ {a} : b \in engines' <=> b \in engines]_vars

\* C16 witness: delete_user has closed the cached engine of one account while
\* the other account's engine is cached.
C16_Witness ==
    \E a \in Accounts :
        /\ del[a].pc = "closed" /\ del[a].had
        /\ a \notin engines
        /\ \E b \in Accounts \ {a} : b \in engines

\* delete_user(a) has returned "deleted" and no import of a has begun since.
Deleted(a) == del[a].status = "deleted" /\ del[a].pc = "idle" /\ pc[a] = "idle" /\ outcome[a] = "none"

\* C17 (as claimed): account deletion releases everything. Once delete_user(a)
\* has returned successfully, and until a is imported again, the analysis schema
\* of a is gone, the cache holds no entry for a, and every query on a fails with
\* AccountNotFound, however the deletion interleaved with queries on a.
C17_DeletionReleases ==
    \A a \in Accounts :
        Deleted(a) =>
            /\ ~dbExists[a]
            /\ db[a] = EmptyRows
            /\ a \notin engines
            /\ obs[a].seen => ~obs[a].found

\* What an operation on another account is to leave of account b.
SameAccount(b) ==
    /\ db'[b] = db[b]
    /\ dbExists'[b] = dbExists[b]
    /\ b \in engines' <=> b \in engines

\* C18: cross-account independence. Every step of an operation on account a
\* (an import by either path, a query, a deletion) leaves the Group and Member
\* rows, the existence of the analysis schema and the cache entry of every other
\* account as they were.
C18_CrossAccount ==
    [][\A a \in Accounts :
          AccountStep(a) => \A b \in Accounts \ {a} : SameAccount(b)]_vars

\* C18 witness: one account was deleted, after imports and queries on both,
\* and the other account still has its rows and its cache entry.
C18_Witness ==
    \E a \in Accounts : \E b \in Accounts \ {a} :
        /\ del[a].status = "deleted" /\ del[a].had
        /\ ~dbExists[a]
        /\ dbExists[b] /\ db[b].members # {} /\ b \in engines

\* A stage is called only after the stages before it, of those the request's
\* branch holds, have returned; key derivation only when no key was supplied.
StagesAfterSuccess ==
    /\ KeyRan => NeedsKey
    /\ StripRan => (NeedsKey => KeyReturned)
    /\ DecryptRan => (req.step = "raw" => StripReturned)
    /\ TransformRan => (req.step \in {"raw", "cleaned"} => DecryptReturned)
    /\ TransformRan => ~(dpc = "done" /\ dres.status = "failed")

\* Once a stage has been called, no stage before it is called.
StagesInOrder ==
    /\ StripRan => kres' = kres
    /\ DecryptRan => (kres' = kres /\ sres' = sres)
    /\ TransformRan => (kres' = kres /\ sres' = sres /\ dpc' = dpc /\ dres' = dres)

\* The request is over and has left the files it was asked to clean up after
\* every stage succeeded.
CleanedUpAfterSuccess == req.cleanup /\ resp = "success"

\* C20 (as claimed): the stages run in the order key derivation (skipped when a
\* key is supplied), header strip, decrypt, transform; a stage runs only if
\* every earlier stage of the request succeeded; the transform never runs after
\* a failed decrypt; and when the request is over, a raw, stripped or decrypted
\* copy that was there is gone only if cleanup was requested and every stage
\* succeeded (for the decrypted copy, stated of the requests whose decrypt stage
\* went as far as the command line).
C20_StageOrder ==
    /\ [](/\ StagesAfterSuccess
          /\ pp = "done" =>
                /\ (req.hadRaw /\ ~RawExists) => CleanedUpAfterSuccess
                /\ (req.hadCleaned /\ ~CleanedExists) => CleanedUpAfterSuccess
                /\ (req.hadDecrypted /\ ~DecryptedExists /\ (~DecryptRan \/ ExternalAttempted))
                      => CleanedUpAfterSuccess)
    /\ [][StagesInOrder]_vars

\* C20 (amended): the order and the dependence of the stages as claimed; the
\* raw and the stripped copy are gone only if cleanup was requested and every
\* stage succeeded; the decrypted copy is gone only then, or because the
\* decrypt stage removed it before an attempt of a backend.
C20_StageOrderAmended ==
    /\ [](/\ StagesAfterSuccess
          /\ (req.hadRaw /\ ~RawExists) => (pp = "done" /\ CleanedUpAfterSuccess)
          /\ (req.hadCleaned /\ ~CleanedExists) => (pp = "done" /\ CleanedUpAfterSuccess)
          /\ (req.hadDecrypted /\ ~DecryptedExists) =>
                \/ pp = "done" /\ CleanedUpAfterSuccess
                \/ Logged("lib_remove") \/ Logged("cli_remove"))
    /\ [][StagesInOrder]_vars

\* C20 witness: a request that asked for cleanup is over after all four stages
\* ran, and the three copies are gone.
C20_Witness ==
    /\ pp = "done" /\ resp = "success" /\ req.cleanup
    /\ KeyRan /\ StripRan /\ DecryptRan /\ TransformRan
    /\ req.hadRaw /\ req.hadCleaned /\ req.hadDecrypted
    /\ ~RawExists /\ ~CleanedExists /\ ~DecryptedExists

\* The source of the last call on a has a row that the filter skips.
HasSkippedRow(s) ==
    \/ s.memberCols <= 5 /\ Len(s.group_member3) > 0
    \/ \E k \in 1..Len(s.group_member3) :
          s.group_member3[k].c2 = NULL \/ s.group_member3[k].c5 = NULL

\* C21: raw-table row filtering. A row of group_member3 with 5 or fewer columns
\* or NULL in column 2 or 5 is skipped and does not abort the import (a call on
\* a database that has both tables fails only when two of the other rows name
\* one pair); after a successful call the committed Member rows are exactly the
\* other rows, one Member per row with group id = str(column 2) and user id =
\* str(column 5), less the rows of the account itself, however many of them came
\* before, at or after a full batch.
C21_RowFiltering ==
    \A a \in Accounts :
        (pc[a] = "idle" /\ src[a].kind = "raw") =>
            /\ outcome[a] = "ok" =>
                  /\ { MemberKey(m) : m \in db[a].members }
                        = { RowKey(src[a], k) : k \in KeptRows(src[a], a) }
                  /\ Cardinality(db[a].members) = Cardinality(KeptRows(src[a], a))
            /\ outcome[a] = "failed" =>
                  \/ ~src[a].hasGroupList
                  \/ ~src[a].hasMembers
                  \/ RepeatsPair(src[a], a)

\* A successful import of a table with a skipped row, a row of the account, a
\* full batch of kept rows and a kept row left for the save after the loop.
C21_Witness ==
    \E a \in Accounts :
        /\ pc[a] = "idle" /\ outcome[a] = "ok" /\ src[a].kind = "raw"
        /\ HasSkippedRow(src[a])
        /\ HasSelfRow(src[a], a)
        /\ Cardinality(KeptRows(src[a], a)) > BATCH_SIZE
        /\ Cardinality(KeptRows(src[a], a)) % BATCH_SIZE # 0
        /\ Cardinality(db[a].members) = Cardinality(KeptRows(src[a], a))

\* A successful import of kept rows that fill the batches exactly.
C21_WitnessFullBatch ==
    \E a \in Accounts :
        /\ pc[a] = "idle" /\ outcome[a] = "ok" /\ src[a].kind = "raw"
        /\ Cardinality(KeptRows(src[a], a)) = BATCH_SIZE
        /\ Cardinality(db[a].members) = BATCH_SIZE

\* A step that begins an import call on a, with the source the step records:
\* clean_data_to_analysis_db is entered, or process_json is, whatever was uploaded.
ImportCall(a) ==
    \/ src'[a].kind = "raw" /\ CleanBegin(a, src'[a])
    \/ src'[a].kind = "json" /\ JsonBegin(a, src'[a])

\* The same, for a structured call whose upload json.loads accepts.
ParsedImportCall(a) ==
    \/ src'[a].kind = "raw" /\ CleanBegin(a, src'[a])
    \/ src'[a].kind = "json" /\ src'[a].top # "invalid" /\ JsonBegin(a, src'[a])

\* A structured call whose upload json.loads rejects.
UnparsedImportCall(a) ==
    src'[a].kind = "json" /\ src'[a].top = "invalid" /\ JsonBegin(a, src'[a])

\* The last import call on a got an upload that json.loads rejected.
Unparsed(a) == src[a].kind = "json" /\ src[a].top = "invalid"

\* What an import call that begins is to do: the schema exists, the cache entry
\* is dropped, and a schema made by this call is empty.
CreatesAndDrops(a) ==
    /\ dbExists'[a]
    /\ a \notin engines'
    /\ ~dbExists[a] => (db'[a] = EmptyRows /\ pre'[a] = EmptyRows)

\* C22 (as claimed): every import call on a, raw-table or structured, creates
\* the analysis schema of a if absent and drops the cached connection of a before
\* its transaction starts. During and after any import call, a failed one
\* included, the schema exists, a failed call leaves the rows that were there at
\* its start (none, if it made the schema), a query on a is not answered with
\* AccountNotFound, and only a query on a puts a back into the cache.
C22_SchemaAfterImport ==
    /\ [](\A a \in Accounts :
            /\ (pc[a] # "idle" \/ outcome[a] # "none") =>
                  /\ dbExists[a]
                  /\ obs[a].seen => obs[a].found
            /\ outcome[a] = "failed" => db[a] = pre[a])
    /\ [][\A a \in Accounts :
            /\ ImportCall(a) => CreatesAndDrops(a)
            /\ (a \notin engines /\ a \in engines') => Query(a)]_vars

\* C22 (amended): the same of every raw-table call and of every structured call
\* whose upload parses as JSON; a structured call whose upload does not parse
\* fails before init_user_db and leaves the schema, absent or present, its rows
\* and the cache entry of a as they were.
C22_SchemaAfterParsedImport ==
    /\ [](\A a \in Accounts :
            /\ (pc[a] # "idle" \/ (outcome[a] # "none" /\ ~Unparsed(a))) =>
                  /\ dbExists[a]
                  /\ obs[a].seen => obs[a].found
            /\ outcome[a] = "failed" => db[a] = pre[a])
    /\ [][\A a \in Accounts :
            /\ ParsedImportCall(a) => CreatesAndDrops(a)
            /\ UnparsedImportCall(a) =>
                  /\ dbExists'[a] = dbExists[a]
                  /\ db'[a] = db[a]
                  /\ a \in engines' <=> a \in engines
            /\ (a \notin engines /\ a \in engines') => Query(a)]_vars

\* A raw-table or parsed structured call on an account that had no rows failed,
\* the schema is there and empty, and a query after the call was answered and
\* cached the connection again.
C22_Witness ==
    \E a \in Accounts :
        /\ pc[a] = "idle" /\ outcome[a] = "failed" /\ ~Unparsed(a)
        /\ dbExists[a] /\ db[a] = EmptyRows /\ pre[a] = EmptyRows
        /\ obs[a].seen /\ obs[a].found
        /\ a \in engines

====
